---- MODULE Spec2Model ----
(***************************************************************************)
(* csvReport (src/main.py): CSVReader.read, Report.generate,               *)
(* Report.performance, ReportPrinter.print and Main.run.                   *)
(*                                                                         *)
(* Cells, paths and messages are strings.  A number is an integer count of *)
(* thousandths (4.8 is 4800); a mean is the pair sum, count.  Messages are *)
(* written in Latin letters (the module's strings are ASCII): the Russian  *)
(* text of src/main.py is transliterated, the interpolated parts are kept. *)
(***************************************************************************)
EXTENDS Integers, Sequences, FiniteSets, TLC

VARIABLES
    entry,      \* which callable of src/main.py this run exercises
    files,      \* args.files (Main.run) / file_path (CSVReader.read)
    report,     \* args.report (Main.run) / report_name (Report.generate)
    disk,       \* the file system: path -> [exists, content]
    call_data,  \* the data argument of a direct Report.generate / Report.performance call
    pc,         \* position in the run
    idx,        \* Main.run: index of file_path in args.files (1-based)
    all_data,   \* Main.run: the merged table
    ret,        \* what the last call returned or raised
    trace,      \* the path operations made so far, in order
    stdout,     \* the tables ReportPrinter.print has printed
    stderr,     \* the error messages written
    exit_code   \* -1 while running, else the process exit status

vars == <<entry, files, report, disk, call_data, pc, idx, all_data, ret,
          trace, stdout, stderr, exit_code>>

----------------------------------------------------------------------------
(* Bounds of the model *)

\* data rows of a table handed directly to Report.performance
MaxRows == 3
\* entries of --files
MaxFiles == 2
\* data rows of one file on disk
MaxFileRows == 1

----------------------------------------------------------------------------
(* Numbers and their text *)

\* the range of the numbers the model's cells and averages take, in thousandths
MinVal == 4000
MaxVal == 5000

Pow10(p) == CASE p = 0 -> 1 [] p = 1 -> 10 [] p = 2 -> 100 [] p = 3 -> 1000

\* n >= 0 written with exactly w digits (n < 10^w)
RECURSIVE Digits(_, _)
Digits(n, w) == IF w = 0 THEN "" ELSE Digits(n \div 10, w - 1) \o ToString(n % 10)

\* the decimal literal of v thousandths with exactly p fraction digits
Decimal(v, p) == ToString(v \div 1000) \o "." \o Digits((v % 1000) \div Pow10(3 - p), p)

\* every decimal literal with 1..3 fraction digits of a number in MinVal..MaxVal,
\* with the number it denotes and its count of fraction digits
Literals ==
    { [text |-> Decimal(v, p), value |-> v, places |-> p] :
        <<v, p>> \in { x \in (MinVal..MaxVal) \X (1..3) : x[1] % Pow10(3 - x[2]) = 0 } }

LiteralOf == [ s \in { l.text : l \in Literals } |-> CHOOSE l \in Literals : l.text = s ]

\* float(s): the number a decimal literal denotes; ValueError for any other text
float(s) ==
    IF s \in DOMAIN LiteralOf
    THEN [raised |-> "none", value |-> LiteralOf[s].value]
    ELSE [raised |-> "ValueError", value |-> 0]

RECURSIVE sum(_)
sum(perf) == IF perf = <<>> THEN 0 ELSE Head(perf) + sum(Tail(perf))

\* RoundHalfEven with the fraction cut off instead of rounded
Truncate(s, n) == s \div (10 * n)

\* s / n in hundredths, rounded to nearest, an exact half to the even neighbour
\* (s in thousandths, s >= 0, n > 0)
RoundHalfEven(s, n) ==
    LET q == s \div (10 * n)
        r == s % (10 * n)
    IN  IF 2 * r > 10 * n THEN q + 1
        ELSE IF 2 * r < 10 * n THEN q
        ELSE IF q % 2 = 0 THEN q ELSE q + 1

\* f"{sum(perf) / len(perf):.2f}"
format_2f(perf) ==
    LET h == RoundHalfEven(sum(perf), Len(perf))
    IN  ToString(h \div 100) \o "." \o Digits(h % 100, 2)

----------------------------------------------------------------------------
(* Results of calls *)

\* a call that returned v
Return(v, io, parsed) ==
    [raised |-> "none", msg |-> "", value |-> v, io |-> io, parsed |-> parsed]

\* a call that raised the exception type with the message msg; io are the path
\* operations the call made, parsed the float() calls it made
Raise(type, msg, io, parsed) ==
    [raised |-> type, msg |-> msg, value |-> <<>>, io |-> io, parsed |-> parsed]

NoCall == Return(<<>>, <<>>, 0)

----------------------------------------------------------------------------
(* CSVReader *)

\* the texts that can precede a suffix in a path of the model
Stems == { "f" \o ToString(j) : j \in 1..MaxFiles }

\* str.endswith
endswith(s, suffix) == \E stem \in Stems : stem \o suffix = s

\* read with the file opened before the suffix is looked at
read_OpenFirst(file_path, d) ==
    LET io == << [op |-> "open", path |-> file_path] >>
    IN  IF ~d[file_path].exists
        THEN Raise("FileNotFoundError", file_path, io, 0)
        ELSE IF ~endswith(file_path, ".csv")
        THEN Raise("ValueError", "Fajl dolzhen byt' v formate .csv: " \o file_path, io, 0)
        ELSE Return(d[file_path].content, io, 0)

\* CSVReader.read(file_path) on the file system d
read(file_path, d) ==
    IF ~endswith(file_path, ".csv")
    THEN Raise("ValueError", "Fajl dolzhen byt' v formate .csv: " \o file_path, <<>>, 0)
    ELSE LET io == << [op |-> "open", path |-> file_path] >>
         IN  IF ~d[file_path].exists
             THEN Raise("FileNotFoundError", file_path, io, 0)
             ELSE Return(d[file_path].content, io, 0)

----------------------------------------------------------------------------
(* Report.performance *)

\* list.index(x): the first i with s[i] = x, 0 when x is not in the list
\* (1-based here; Python's is 0-based and raises ValueError)
index(s, x) ==
    IF \E i \in 1..Len(s) : s[i] = x
    THEN CHOOSE i \in 1..Len(s) : s[i] = x /\ \A j \in 1..(i - 1) : s[j] # x
    ELSE 0

\* position in perf_data: the dict perf_data, kept as the list of its items in
\* insertion order, has the key position
HasKey(perf_data, position) == \E g \in 1..Len(perf_data) : perf_data[g].key = position

\* Accumulate with the key folded to lower case before the lookup
Accumulate_Lower(perf_data, position, performance) ==
    LET key == CASE position = "Backend" -> "backend"
                 [] position = "Frontend" -> "frontend"
                 [] OTHER -> position
        d == IF HasKey(perf_data, key)
             THEN perf_data
             ELSE Append(perf_data, [key |-> key, val |-> <<>>])
    IN  [ g \in 1..Len(d) |->
            IF d[g].key = key
            THEN [key |-> d[g].key, val |-> Append(d[g].val, performance)]
            ELSE d[g] ]

\* lines 93-95: create the key's list on first sight, then append to it
Accumulate(perf_data, position, performance) ==
    LET d == IF HasKey(perf_data, position)
             THEN perf_data
             ELSE Append(perf_data, [key |-> position, val |-> <<>>])
    IN  [ g \in 1..Len(d) |->
            IF d[g].key = position
            THEN [key |-> d[g].key, val |-> Append(d[g].val, performance)]
            ELSE d[g] ]

\* lines 89-95, from row k on: the dict built, or the ValueError of float();
\* parsed counts the float() calls made
RECURSIVE Loop(_, _, _, _, _, _)
Loop(rows, k, pos_idx, perf_idx, perf_data, parsed) ==
    IF k > Len(rows)
    THEN [raised |-> "none", msg |-> "", perf_data |-> perf_data, parsed |-> parsed]
    ELSE LET row == rows[k]
         IN  IF pos_idx > Len(row) \/ perf_idx > Len(row)
             THEN [raised |-> "IndexError", msg |-> "list index out of range",
                   perf_data |-> <<>>, parsed |-> parsed]
             ELSE LET f == float(row[perf_idx])
                  IN  IF f.raised # "none"
                      THEN [raised |-> "ValueError",
                            msg |-> "could not convert string to float: '"
                                    \o row[perf_idx] \o "'",
                            perf_data |-> <<>>, parsed |-> parsed + 1]
                      ELSE Loop(rows, k + 1, pos_idx, perf_idx,
                                Accumulate(perf_data, row[pos_idx], f.value),
                                parsed + 1)

\* lines 97-100: one [pos, formatted average] per item of the dict, in its order
Averages(perf_data) ==
    [ g \in 1..Len(perf_data) |-> << perf_data[g].key, format_2f(perf_data[g].val) >> ]

\* the sort key of line 101
Key(x) == float(x[2]).value

\* InsertDesc with the comparison turned round: an ascending sort
RECURSIVE InsertAsc(_, _)
InsertAsc(s, x) ==
    IF s = <<>> THEN << x >>
    ELSE IF Key(Head(s)) <= Key(x)
         THEN << Head(s) >> \o InsertAsc(Tail(s), x)
         ELSE << x >> \o s

\* InsertDesc with x put before the elements of equal key: a sort that is
\* descending and not stable
RECURSIVE InsertDesc_Strict(_, _)
InsertDesc_Strict(s, x) ==
    IF s = <<>> THEN << x >>
    ELSE IF Key(Head(s)) > Key(x)
         THEN << Head(s) >> \o InsertDesc_Strict(Tail(s), x)
         ELSE << x >> \o s

\* x inserted into the descending list s after every element whose key is >= x's
RECURSIVE InsertDesc(_, _)
InsertDesc(s, x) ==
    IF s = <<>> THEN << x >>
    ELSE IF Key(Head(s)) >= Key(x)
         THEN << Head(s) >> \o InsertDesc(Tail(s), x)
         ELSE << x >> \o s

\* result.sort(key=lambda x: float(x[1]), reverse=True): descending by key,
\* elements of equal key in their original order (list.sort is stable, and
\* reverse=True keeps that order)
RECURSIVE SortDesc(_)
SortDesc(result) ==
    IF result = <<>> THEN <<>>
    ELSE InsertDesc(SortDesc(SubSeq(result, 1, Len(result) - 1)), result[Len(result)])

\* Enumerate numbering from 0: str(i) for str(i + 1)
Enumerate_FromZero(result) ==
    [ i \in 1..Len(result) |-> << ToString(i - 1), result[i][1], result[i][2] >> ]

\* line 103: [str(i + 1), *row] for i, row in enumerate(result)
Enumerate(result) ==
    [ i \in 1..Len(result) |-> << ToString(i), result[i][1], result[i][2] >> ]

ReportHeaders == << "No", "position", "performance" >>

\* performance with the two header lookups in the other order
performance_PerfFirst(data) ==
    IF data = <<>>
    THEN Raise("IndexError", "list index out of range", <<>>, 0)
    ELSE LET headers == data[1]
             rows == Tail(data)
             pos_idx == index(headers, "position")
             perf_idx == index(headers, "performance")
         IN  IF perf_idx = 0
             THEN Raise("ValueError",
                        "Otsutstvuet kolonka: 'performance' is not in list", <<>>, 0)
             ELSE IF pos_idx = 0
             THEN Raise("ValueError",
                        "Otsutstvuet kolonka: 'position' is not in list", <<>>, 0)
             ELSE LET l == Loop(rows, 1, pos_idx, perf_idx, <<>>, 0)
                  IN  IF l.raised # "none"
                      THEN Raise(l.raised, l.msg, <<>>, l.parsed)
                      ELSE Return(<< ReportHeaders,
                                     Enumerate(SortDesc(Averages(l.perf_data))) >>,
                                  <<>>, l.parsed)

\* Report.performance(data)
performance(data) ==
    IF data = <<>>
    THEN Raise("IndexError", "list index out of range", <<>>, 0)
    ELSE LET headers == data[1]
             rows == Tail(data)
             pos_idx == index(headers, "position")
             perf_idx == index(headers, "performance")
         IN  IF pos_idx = 0
             THEN Raise("ValueError",
                        "Otsutstvuet kolonka: 'position' is not in list", <<>>, 0)
             ELSE IF perf_idx = 0
             THEN Raise("ValueError",
                        "Otsutstvuet kolonka: 'performance' is not in list", <<>>, 0)
             ELSE LET l == Loop(rows, 1, pos_idx, perf_idx, <<>>, 0)
                  IN  IF l.raised # "none"
                      THEN Raise(l.raised, l.msg, <<>>, l.parsed)
                      ELSE Return(<< ReportHeaders,
                                     Enumerate(SortDesc(Averages(l.perf_data))) >>,
                                  <<>>, l.parsed)

----------------------------------------------------------------------------
(* Report.generate *)

\* getattr(cls, report_name, None) over the attributes of class Report:
\* "report" a report function, "method" another callable, "value" an
\* attribute that is not callable, "None" no attribute
getattr(report_name) ==
    CASE report_name = "performance" -> "report"
      [] report_name = "generate"    -> "method"
      [] report_name = "__doc__"     -> "value"
      [] OTHER                       -> "None"

\* Report.generate(report_name, data)
generate(report_name, data) ==
    LET method == getattr(report_name)
    IN  IF method = "None" \/ method = "value"
        THEN Raise("ValueError", "Otchyot '" \o report_name \o "' ne najden.", <<>>, 0)
        ELSE IF method = "report"
        THEN performance(data)
        ELSE \* Report.generate(data): the classmethod called with one argument
             Raise("TypeError",
                   "Report.generate() missing 1 required positional argument: 'data'",
                   <<>>, 0)

----------------------------------------------------------------------------
(* Inputs *)

\* every sequence over S of length 0..n
SeqsUpTo(S, n) == UNION { [1..k -> S] : k \in 0..n }

\* the tables with a header of hs and at most n data rows, the rows of a table
\* with header h drawn from RowsOf[h]
Tables(hs, RowsOf, n) ==
    UNION { { << h >> \o rows : rows \in SeqsUpTo(RowsOf[h], n) } : h \in hs }

Positions == { "Backend", "backend", "Frontend" }
PerfCells == { "4.8", "4.504", "4.496", "4.125", "not_a_number" }

Headers ==
    { << "position", "performance" >>, << "performance", "position" >>,
      << "role", "performance" >>, << "position", "perf" >>, << "role", "perf" >> }

\* the rows under a header: a position-like cell and a performance-like cell,
\* the performance-like cell first when the header starts with "performance"
RowsUnder ==
    [ h \in Headers |->
        IF h[1] = "performance" THEN PerfCells \X Positions ELSE Positions \X PerfCells ]

\* t is a data argument of a direct Report.performance call: no row at all,
\* or a header and at most MaxRows data rows under it
CallTable(t) ==
    \/ t = <<>>
    \/ \E h \in Headers : \E n \in 0..MaxRows : \E rows \in [1..n -> RowsUnder[h]] :
          t = << h >> \o rows

FileHeaders == { << "position", "performance" >>, << "role", "performance" >> }
FileRows == { << "Backend", "4.8" >>, << "Frontend", "not_a_number" >> }

\* what csv.reader yields for a file: nothing for an empty file, else a header
\* and data rows
FileContents ==
    { <<>> } \cup Tables(FileHeaders, [ h \in FileHeaders |-> FileRows ], MaxFileRows)

SampleTable == << << "position", "performance" >>, << "Backend", "4.8" >> >>

\* a path's suffix, whether the path exists, and what the file holds: a
\* missing path of either suffix, an existing file without the .csv suffix,
\* an existing .csv file of any content
FileChoices ==
    { [ext |-> e, exists |-> FALSE, content |-> <<>>] : e \in { ".csv", ".txt" } }
    \cup { [ext |-> ".txt", exists |-> TRUE, content |-> SampleTable] }
    \cup { [ext |-> ".csv", exists |-> TRUE, content |-> c] : c \in FileContents }

ReportNames == { "performance", "unknown", "generate", "__doc__" }

PathOf(j, choice) == "f" \o ToString(j) \o choice.ext

----------------------------------------------------------------------------
(* The runs *)

Idle ==
    /\ idx = 1
    /\ all_data = <<>>
    /\ ret = NoCall
    /\ trace = <<>>
    /\ stdout = <<>>
    /\ stderr = <<>>
    /\ exit_code = -1

\* the command line and the file system of a run
InitFiles(n) ==
    \E c \in [1..n -> FileChoices] :
        /\ files = [ j \in 1..n |-> PathOf(j, c[j]) ]
        /\ disk = [ p \in { PathOf(j, c[j]) : j \in 1..n } |->
                      LET j == CHOOSE i \in 1..n : PathOf(i, c[i]) = p
                      IN  [exists |-> c[j].exists, content |-> c[j].content] ]

Init ==
    /\ Idle
    /\ \/ /\ entry = "Main.run"
          /\ pc = "exists"
          /\ \E n \in 1..MaxFiles : InitFiles(n)
          /\ report \in ReportNames
          /\ call_data = <<>>
       \/ /\ entry = "CSVReader.read"
          /\ pc = "call"
          /\ InitFiles(1)
          /\ report = ""
          /\ call_data = <<>>
       \/ /\ entry = "Report.generate"
          /\ pc = "call"
          /\ files = <<>>
          /\ disk = << >>
          /\ report \in ReportNames
          /\ call_data \in FileContents
       \/ /\ entry = "Report.performance"
          /\ pc = "call"
          /\ files = <<>>
          /\ disk = << >>
          /\ report = ""
          /\ CallTable(call_data)

\* self.parser.error(message): argparse writes the usage and the message to
\* standard error and exits with status 2
parser_error(message) ==
    /\ stderr' = Append(stderr, message)
    /\ exit_code' = 2
    /\ pc' = "exit"

\* an exception that leaves Main.run: the interpreter writes the traceback to
\* standard error and exits with status 1
Uncaught(r) ==
    /\ stderr' = Append(stderr, "Traceback: " \o r.raised \o ": " \o r.msg)
    /\ exit_code' = 1
    /\ pc' = "exit"

\* merge with the header row of a later file kept
merge_KeepHeader(acc, data) == IF acc = <<>> THEN data ELSE acc \o data

\* lines 136-139
merge(acc, data) ==
    IF acc = <<>> THEN data
    ELSE acc \o (IF data = <<>> THEN <<>> ELSE Tail(data))

\* lines 131-133: the existence check that opens each iteration of the loop
MainExists ==
    /\ entry = "Main.run" /\ pc = "exists"
    /\ LET file_path == files[idx]
       IN  /\ trace' = Append(trace, [op |-> "os.path.exists", path |-> file_path])
           /\ IF ~disk[file_path].exists
              THEN parser_error("Fajl ne najden: " \o file_path)
              ELSE pc' = "read" /\ UNCHANGED << stderr, exit_code >>
    /\ UNCHANGED << entry, files, report, disk, call_data, idx, all_data, ret, stdout >>

\* lines 134-141: read the file and merge it, any exception ending the run
MainRead ==
    /\ entry = "Main.run" /\ pc = "read"
    /\ LET file_path == files[idx]
           r == read(file_path, disk)
       IN  /\ trace' = trace \o r.io
           /\ ret' = r
           /\ IF r.raised # "none"
              THEN /\ parser_error("Oshibka pri chtenii fajla " \o file_path
                                   \o ": " \o r.msg)
                   /\ UNCHANGED << idx, all_data >>
              ELSE /\ all_data' = merge(all_data, r.value)
                   /\ idx' = idx + 1
                   /\ pc' = IF idx + 1 > Len(files) THEN "generate" ELSE "exists"
                   /\ UNCHANGED << stderr, exit_code >>
    /\ UNCHANGED << entry, files, report, disk, call_data, stdout >>

\* MainGenerate with the error written and the run going on to print
MainGenerate_NoExit ==
    /\ entry = "Main.run" /\ pc = "generate"
    /\ LET r == generate(report, all_data)
       IN  /\ ret' = r
           /\ stderr' = IF r.raised # "none"
                        THEN Append(stderr, "Oshibka pri generacii otchyota: " \o r.msg)
                        ELSE stderr
           /\ pc' = "print"
    /\ UNCHANGED << entry, files, report, disk, call_data, idx, all_data, trace,
                    stdout, exit_code >>

\* lines 143-146: generate the report, a ValueError ending the run through
\* parser.error, any other exception leaving Main.run
MainGenerate ==
    /\ entry = "Main.run" /\ pc = "generate"
    /\ LET r == generate(report, all_data)
       IN  /\ ret' = r
           /\ IF r.raised = "ValueError"
              THEN parser_error("Oshibka pri generacii otchyota: " \o r.msg)
              ELSE IF r.raised # "none"
              THEN Uncaught(r)
              ELSE pc' = "print" /\ UNCHANGED << stderr, exit_code >>
    /\ UNCHANGED << entry, files, report, disk, call_data, idx, all_data, trace, stdout >>

\* lines 148-149 and ReportPrinter.print: the table goes to standard output
\* and the run ends with status 0
MainPrint ==
    /\ entry = "Main.run" /\ pc = "print"
    /\ stdout' = Append(stdout, ret.value)
    /\ exit_code' = 0
    /\ pc' = "exit"
    /\ UNCHANGED << entry, files, report, disk, call_data, idx, all_data, ret, trace, stderr >>

\* CSVReader.read(file_path) called directly
CallRead ==
    /\ entry = "CSVReader.read" /\ pc = "call"
    /\ ret' = read(files[1], disk)
    /\ trace' = trace \o ret'.io
    /\ pc' = "returned"
    /\ UNCHANGED << entry, files, report, disk, call_data, idx, all_data, stdout,
                    stderr, exit_code >>

\* Report.generate(report_name, data) called directly
CallGenerate ==
    /\ entry = "Report.generate" /\ pc = "call"
    /\ ret' = generate(report, call_data)
    /\ pc' = "returned"
    /\ UNCHANGED << entry, files, report, disk, call_data, idx, all_data, trace,
                    stdout, stderr, exit_code >>

\* Report.performance(data) called directly
CallPerformance ==
    /\ entry = "Report.performance" /\ pc = "call"
    /\ ret' = performance(call_data)
    /\ pc' = "returned"
    /\ UNCHANGED << entry, files, report, disk, call_data, idx, all_data, trace,
                    stdout, stderr, exit_code >>

Next ==
    \/ MainExists
    \/ MainRead
    \/ MainGenerate
    \/ MainPrint
    \/ CallRead
    \/ CallGenerate
    \/ CallPerformance

Spec == Init /\ [][Next]_vars

----------------------------------------------------------------------------
(* What the claims speak of, read off the inputs *)

\* Report.performance has run on PerfInput and ret holds its outcome
PerfReturned ==
    \/ entry = "Report.performance" /\ pc = "returned"
    \/ entry = "Report.generate" /\ pc = "returned" /\ report = "performance"
    \/ entry = "Main.run" /\ idx > Len(files) /\ pc \in { "print", "exit" }
       /\ report = "performance"

PerfInput == IF entry = "Main.run" THEN all_data ELSE call_data

Names(header) == { header[i] : i \in 1..Len(header) }

\* the table has a header row naming both columns
HasBoth(data) ==
    /\ data # <<>>
    /\ "position" \in Names(data[1])
    /\ "performance" \in Names(data[1])

Col(data, name) == CHOOSE i \in 1..Len(data[1]) : data[1][i] = name

\* the indices of the data rows, and of those carrying a position
DataRows(data) == 2..Len(data)
RowsOf(data, pos) == { k \in DataRows(data) : data[k][Col(data, "position")] = pos }

PositionsIn(data) == { data[k][Col(data, "position")] : k \in DataRows(data) }

IsNumber(cell) == float(cell).raised = "none"

AllNumeric(data) ==
    \A k \in DataRows(data) : IsNumber(data[k][Col(data, "performance")])

\* a table Report.performance accepts
Valid(data) == HasBoth(data) /\ AllNumeric(data)

RECURSIVE SumOver(_, _)
SumOver(data, ks) ==
    IF ks = {} THEN 0
    ELSE LET k == CHOOSE x \in ks : TRUE
         IN  float(data[k][Col(data, "performance")]).value + SumOver(data, ks \ { k })

\* the output rows of a call that returned
Out == ret.value[2]

\* the sum (thousandths) and the count of the group of output row i
GroupSum(i) == SumOver(PerfInput, RowsOf(PerfInput, Out[i][2]))
GroupCount(i) == Cardinality(RowsOf(PerfInput, Out[i][2]))

\* the emitted average of output row i read as a number (thousandths)
Emitted(i) == LiteralOf[Out[i][3]].value

FirstRow(pos) == CHOOSE k \in RowsOf(PerfInput, pos) : \A j \in RowsOf(PerfInput, pos) : k <= j

----------------------------------------------------------------------------
(* Claims *)

\* C1: on a table whose header has position and performance and whose
\* performance cells are all numbers, Report.performance returns one output
\* row per distinct position string of the data rows (distinct as strings:
\* "Backend" and "backend" are two), and no more output rows than data rows.
C1_OneRowPerPosition ==
    (PerfReturned /\ Valid(PerfInput)) =>
        /\ ret.raised = "none"
        /\ { Out[i][2] : i \in 1..Len(Out) } = PositionsIn(PerfInput)
        /\ Len(Out) = Cardinality(PositionsIn(PerfInput))
        /\ Len(Out) <= Len(PerfInput) - 1

\* three data rows in two groups that differ only in the case of a letter
C1_Witness ==
    /\ PerfReturned /\ Valid(PerfInput)
    /\ Len(PerfInput) = 4
    /\ PositionsIn(PerfInput) = { "Backend", "backend" }
    /\ Len(Out) = 2

\* C2 as stated: for adjacent output rows i and i+1 the arithmetic mean of
\* group i is greater than or equal to the arithmetic mean of group i+1
\* (sum_i / n_i >= sum_j / n_j, cross-multiplied).
C2_SortedByMean ==
    (PerfReturned /\ ret.raised = "none") =>
        \A i \in 1..(Len(Out) - 1) :
            GroupSum(i) * GroupCount(i + 1) >= GroupSum(i + 1) * GroupCount(i)

\* C2 amended: the output rows are ordered by the emitted two-decimal average
\* read as a number, descending; the means of adjacent rows are in descending
\* order too unless the two rows emit the same two-decimal average.
C2_SortedByEmitted ==
    (PerfReturned /\ ret.raised = "none") =>
        \A i \in 1..(Len(Out) - 1) :
            /\ Emitted(i) >= Emitted(i + 1)
            /\ \/ GroupSum(i) * GroupCount(i + 1) >= GroupSum(i + 1) * GroupCount(i)
               \/ Out[i][3] = Out[i + 1][3]

\* three groups come out in an order that is not the order of their first
\* rows, two of them with different means and the same emitted average
C2_Witness ==
    /\ PerfReturned /\ ret.raised = "none"
    /\ Len(Out) = 3
    /\ Emitted(1) > Emitted(2)
    /\ FirstRow(Out[1][2]) > FirstRow(Out[2][2])
    /\ Out[2][3] = Out[3][3]
    /\ GroupSum(2) * GroupCount(3) # GroupSum(3) * GroupCount(2)

\* C3 as stated: for every report name other than "performance"
\* Report.generate fails with the ValueError that names the report.
C3_UnknownReport ==
    ( /\ \/ entry = "Report.generate" /\ pc = "returned"
         \/ entry = "Main.run" /\ idx > Len(files) /\ pc \in { "print", "exit" }
      /\ report # "performance" ) =>
        /\ ret.raised = "ValueError"
        /\ ret.msg = "Otchyot '" \o report \o "' ne najden."

\* C4: once Main.run has read two files whose headers are the same, with M
\* and N data rows, the merged table is the first file's header, then the
\* first file's M data rows, then the second file's N data rows.
C4_MergeTwoFiles ==
    ( /\ entry = "Main.run" /\ idx = 3
      /\ disk[files[1]].content # <<>> /\ disk[files[2]].content # <<>>
      /\ disk[files[1]].content[1] = disk[files[2]].content[1] ) =>
        LET c1 == disk[files[1]].content
            c2 == disk[files[2]].content
        IN  /\ Len(all_data) = 1 + (Len(c1) - 1) + (Len(c2) - 1)
            /\ all_data[1] = c1[1]
            /\ \A k \in 2..Len(c1) : all_data[k] = c1[k]
            /\ \A k \in 2..Len(c2) : all_data[Len(c1) + k - 1] = c2[k]

\* both files have data rows, and the two files' rows differ
C4_Witness ==
    /\ entry = "Main.run" /\ idx = 3
    /\ Len(disk[files[1]].content) >= 2 /\ Len(disk[files[2]].content) >= 2
    /\ disk[files[1]].content[1] = disk[files[2]].content[1]
    /\ disk[files[1]].content[2] # disk[files[2]].content[2]
    /\ Len(all_data) = 3

\* C5: a run of Main.run never both reports an error and prints.  Whatever
\* is printed is printed once, by a run that read every file and generated
\* the report, and that run ends with status 0 and no error message; every
\* other finished run has written one error message, ends with a failure
\* status and has printed nothing, whichever file or stage failed.  The
\* failures of a report ValueError, a missing file and a failed read end
\* through parser.error (status 2).
C5_NoPartialSuccess ==
    entry = "Main.run" =>
        /\ stdout # <<>> =>
              /\ pc = "exit" /\ exit_code = 0 /\ stderr = <<>>
              /\ idx > Len(files)
              /\ ret.raised = "none"
              /\ stdout = << ret.value >>
        /\ pc = "exit" =>
              \/ exit_code = 0 /\ Len(stdout) = 1 /\ stderr = <<>>
              \/ exit_code \in { 1, 2 } /\ stdout = <<>> /\ Len(stderr) = 1
        /\ pc # "exit" => exit_code = -1 /\ stdout = <<>> /\ stderr = <<>>
        /\ (pc = "exit" /\ exit_code # 0 /\ ret.raised \in { "none", "ValueError" }) =>
              exit_code = 2

\* a run whose second file is missing ends in failure with nothing printed,
\* after the first file was read and merged
C5_Witness ==
    /\ entry = "Main.run" /\ pc = "exit"
    /\ Len(files) >= 2 /\ idx = 2 /\ ~disk[files[2]].exists
    /\ Len(all_data) = 2
    /\ exit_code = 2 /\ stdout = <<>> /\ Len(stderr) = 1

InvalidFormat(path) == "Fajl dolzhen byt' v formate .csv: " \o path

\* C6 as stated: a path without the .csv suffix, given to CSVReader.read or
\* as an entry of --files, ends in the InvalidFormat error, and no path
\* operation (existence check or open) is made on it before the suffix check.
C6_SuffixBeforeIO ==
    /\ \A k \in 1..Len(trace) : endswith(trace[k].path, ".csv")
    /\ (entry = "CSVReader.read" /\ pc = "returned" /\ ~endswith(files[1], ".csv")) =>
          ret.raised = "ValueError" /\ ret.msg = InvalidFormat(files[1])
    /\ (entry = "Main.run" /\ pc = "exit" /\ idx <= Len(files)
        /\ ~endswith(files[idx], ".csv")) =>
          stderr = << "Oshibka pri chtenii fajla " \o files[idx] \o ": "
                      \o InvalidFormat(files[idx]) >>

\* C6 amended: CSVReader.read on a path without the .csv suffix raises the
\* InvalidFormat ValueError and makes no path operation; no path without the
\* suffix is ever opened.  In Main.run the existence check of an entry comes
\* before its suffix check: the one path operation on an entry without the
\* suffix is os.path.exists, and the run ends with the NotFound error when
\* the path does not exist and with the InvalidFormat error when it does.
C6_SuffixBeforeOpen ==
    /\ \A k \in 1..Len(trace) :
          ~endswith(trace[k].path, ".csv") =>
              entry = "Main.run" /\ trace[k].op = "os.path.exists"
    /\ (entry = "CSVReader.read" /\ pc = "returned" /\ ~endswith(files[1], ".csv")) =>
          ret.raised = "ValueError" /\ ret.msg = InvalidFormat(files[1]) /\ trace = <<>>
    /\ (entry = "Main.run" /\ pc = "exit" /\ idx <= Len(files)
        /\ ~endswith(files[idx], ".csv")) =>
          /\ trace[Len(trace)] = [op |-> "os.path.exists", path |-> files[idx]]
          /\ exit_code = 2
          /\ stderr = IF disk[files[idx]].exists
                      THEN << "Oshibka pri chtenii fajla " \o files[idx] \o ": "
                              \o InvalidFormat(files[idx]) >>
                      ELSE << "Fajl ne najden: " \o files[idx] >>

\* Main.run ends on an existing second entry without the suffix
C6_Witness ==
    /\ entry = "Main.run" /\ pc = "exit" /\ Len(files) >= 2 /\ idx = 2
    /\ ~endswith(files[2], ".csv") /\ disk[files[2]].exists
    /\ ret.raised = "ValueError" /\ ret.msg = InvalidFormat(files[2])

\* C7: when the header row lacks position or performance, Report.performance
\* fails with the MissingColumn ValueError that names the missing column,
\* position when both are missing, and has parsed no data cell: the failure
\* is the same whether or not a performance cell of the rows is a number.
C7_MissingColumn ==
    (PerfReturned /\ PerfInput # <<>> /\ ~HasBoth(PerfInput)) =>
        LET missing == IF "position" \notin Names(PerfInput[1])
                       THEN "position" ELSE "performance"
        IN  /\ ret.raised = "ValueError"
            /\ ret.msg = "Otsutstvuet kolonka: '" \o missing \o "' is not in list"
            /\ ret.parsed = 0

\* both columns are missing and the first data row holds a cell that is no number
C7_Witness ==
    /\ PerfReturned /\ Len(PerfInput) >= 2
    /\ PerfInput[1] = << "role", "perf" >>
    /\ \E i \in 1..Len(PerfInput[2]) : PerfInput[2][i] = "not_a_number"
    /\ ret.raised = "ValueError"

RankTexts == << "1", "2", "3", "4", "5", "6", "7", "8", "9" >>

\* C8: when Report.performance returns, the rank column is "1", "2", ..., "N"
\* in row order, N the number of distinct position values; a table of a
\* header with both columns and no data row returns with no output row.
C8_Ranks ==
    /\ (PerfReturned /\ ret.raised = "none") =>
          /\ Len(Out) = Cardinality(PositionsIn(PerfInput))
          /\ [ i \in 1..Len(Out) |-> Out[i][1] ] = SubSeq(RankTexts, 1, Len(Out))
    /\ (PerfReturned /\ HasBoth(PerfInput) /\ Len(PerfInput) = 1) =>
          ret.raised = "none" /\ Out = <<>>

\* three groups, ranked "1", "2", "3"
C8_Witness ==
    /\ PerfReturned /\ ret.raised = "none"
    /\ Len(Out) = 3
    /\ Out[3][1] = "3"

Abs(x) == IF x < 0 THEN -x ELSE x

\* C9: the emitted average of every output row is a fixed-point text with
\* exactly two fraction digits, and the number it denotes is the mean of the
\* performance values of exactly the data rows carrying the row's position,
\* rounded to the nearest hundredth (it is within half a hundredth of sum /
\* count).
C9_EmittedMean ==
    (PerfReturned /\ ret.raised = "none") =>
        \A i \in 1..Len(Out) :
            /\ GroupCount(i) >= 1
            /\ Out[i][3] \in DOMAIN LiteralOf
            /\ LiteralOf[Out[i][3]].places = 2
            /\ 2 * Abs(Emitted(i) * GroupCount(i) - GroupSum(i)) <= 10 * GroupCount(i)

\* a group of two rows whose mean is no multiple of a hundredth, beside a
\* second group
C9_Witness ==
    /\ PerfReturned /\ ret.raised = "none"
    /\ Len(Out) = 2
    /\ \E i \in 1..2 :
          /\ GroupCount(i) = 2
          /\ Emitted(i) * GroupCount(i) # GroupSum(i)

\* C10: two output rows whose emitted two-decimal averages are equal stand
\* in the order in which their positions first occur in the data rows.
C10_TieOrder ==
    (PerfReturned /\ ret.raised = "none") =>
        \A i, j \in 1..Len(Out) :
            (i < j /\ Out[i][3] = Out[j][3]) =>
                FirstRow(Out[i][2]) < FirstRow(Out[j][2])

\* two groups tie below a third that occurs after them in the data rows
C10_Witness ==
    /\ PerfReturned /\ ret.raised = "none"
    /\ Len(Out) = 3
    /\ Out[2][3] = Out[3][3]
    /\ Emitted(1) > Emitted(2)
    /\ FirstRow(Out[1][2]) > FirstRow(Out[3][2])

====
